---- MODULE Spec2Model ----
(***************************************************************************)
(* State-machine model of the RAG pipeline of app_tabs.py (a Streamlit     *)
(* script).  One action is one run of the script, top to bottom: the Chat  *)
(* tab first calls ensure_conversation(), then at most one widget handler  *)
(* (chat submit, Rebuild Knowledge Base, Clear Chat History) runs.  An     *)
(* uncaught exception ends the run where it is raised.                     *)
(*                                                                         *)
(* Texts are sequences of tokens: the characters the code inspects (" ",   *)
(* "\n", "-", "*") are tokens of their own, any other token is a run of    *)
(* characters the code never looks into.                                   *)
(***************************************************************************)
EXTENDS Integers, Sequences, FiniteSets, TLC

(* Bounds: the number of chat submissions handled in one session, under    *)
(* Spec (every kind of step) and under ChatSpec (a session that chats).    *)
MaxAsks == 1
MaxChatAsks == 3

(***************************************************************************)
(* Text helpers: str.strip() and str.replace().                            *)
(***************************************************************************)
Whitespace == {" ", "\n", "\t"}

RECURSIVE LStrip(_)
LStrip(s) ==
    IF s # <<>> /\ Head(s) \in Whitespace THEN LStrip(Tail(s)) ELSE s

RECURSIVE RStrip(_)
RStrip(s) ==
    IF s # <<>> /\ s[Len(s)] \in Whitespace
    THEN RStrip(SubSeq(s, 1, Len(s) - 1))
    ELSE s

Strip(s) == RStrip(LStrip(s))

IsPrefix(p, s) == Len(p) <= Len(s) /\ SubSeq(s, 1, Len(p)) = p

(* s.replace(old, new): non-overlapping occurrences, scanned left to right *)
RECURSIVE Replace(_, _, _)
Replace(s, old, new) ==
    IF s = <<>> THEN <<>>
    ELSE IF IsPrefix(old, s)
         THEN new \o Replace(SubSeq(s, Len(old) + 1, Len(s)), old, new)
         ELSE <<Head(s)>> \o Replace(Tail(s), old, new)

(***************************************************************************)
(* tidy_response                                                           *)
(***************************************************************************)
tidy_response(text) ==
    IF text = <<>> THEN <<>>
    ELSE LET t0 == Strip(text)
             t1 == Replace(t0, <<"\n", "-">>, <<"\n", "\n", "-">>)
             t2 == Replace(t1, <<"*", "*", " ">>, <<"*", "*">>)
             t3 == Replace(t2, <<" ", "*", "*">>, <<"*", "*">>)
         IN  t3

(***************************************************************************)
(* The working directory.  An entry has a stem and an extension; Python    *)
(* sorts names by code point, so upper case sorts before lower case.       *)
(***************************************************************************)
CodePoint(c) ==
    CASE c = "B" -> 66
      [] c = "a" -> 97
      [] c = "n" -> 110

Lower(ext) ==
    CASE ext = ".PDF" -> ".pdf"
      [] ext = ".pdf" -> ".pdf"
      [] ext = ".txt" -> ".txt"

(* A page either yields text or makes extract_text() raise. *)
Page(text) == [raises |-> FALSE, text |-> text]
BadPage    == [raises |-> TRUE, text |-> <<>>]

(* "B.PDF": page 1 has text, page 2 is blank.  "a.pdf": its only page is   *)
(* blank.  "n.txt" is a file that is no PDF.                               *)
DirEntries ==
    { [stem |-> "B", ext |-> ".PDF", isfile |-> TRUE, open_fails |-> FALSE,
       pages |-> << Page(<<"soil", " ", "bearing">>), Page(<<" ">>) >>],
      [stem |-> "a", ext |-> ".pdf", isfile |-> TRUE, open_fails |-> FALSE,
       pages |-> << Page(<<" ", "\n">>) >>],
      [stem |-> "n", ext |-> ".txt", isfile |-> TRUE, open_fails |-> TRUE,
       pages |-> <<>>] }

FileName(f) == <<f.stem, f.ext>>

(* sorted(names): ascending by code point of the (distinct) stems *)
RECURSIVE SortedEntries(_)
SortedEntries(S) ==
    IF S = {} THEN <<>>
    ELSE LET m == CHOOSE x \in S :
                    \A y \in S : CodePoint(x.stem) <= CodePoint(y.stem)
         IN  <<m>> \o SortedEntries(S \ {m})

IsPdf(f) == f.isfile /\ Lower(f.ext) = ".pdf"

RECURSIVE KeepPdfs(_)
KeepPdfs(s) ==
    IF s = <<>> THEN <<>>
    ELSE (IF IsPdf(Head(s)) THEN <<Head(s)>> ELSE <<>>) \o KeepPdfs(Tail(s))

list_pdfs_in_cwd(dir) == KeepPdfs(SortedEntries(dir))

Names(files) == [i \in 1..Len(files) |-> FileName(files[i])]

(***************************************************************************)
(* load_docs_from_files: one Document per page with non-blank text.  An    *)
(* exception while opening a file or reading a page is caught per file: a  *)
(* warning is issued and the loop goes on with the next file; Documents    *)
(* already appended stay in the list.                                      *)
(***************************************************************************)
Document(f, i) ==
    [page_content |-> f.pages[i].text, source |-> FileName(f), page |-> i]

(* pages i.. of file f, given the result so far *)
RECURSIVE ReadPages(_, _, _)
ReadPages(f, i, acc) ==
    IF i > Len(f.pages) THEN acc
    ELSE IF f.pages[i].raises
         THEN [docs |-> acc.docs, warnings |-> Append(acc.warnings, FileName(f))]
         ELSE ReadPages(f, i + 1,
                 IF Strip(f.pages[i].text) # <<>>
                 THEN [docs |-> Append(acc.docs, Document(f, i)),
                       warnings |-> acc.warnings]
                 ELSE acc)

RECURSIVE LoadFrom(_, _)
LoadFrom(pdf_files, acc) ==
    IF pdf_files = <<>> THEN acc
    ELSE LET f == Head(pdf_files)
         IN  LoadFrom(Tail(pdf_files),
                 IF f.open_fails
                 THEN [docs |-> acc.docs,
                       warnings |-> Append(acc.warnings, FileName(f))]
                 ELSE ReadPages(f, 1, acc))

load_docs_from_files(pdf_files) ==
    LoadFrom(pdf_files, [docs |-> <<>>, warnings |-> <<>>])

(***************************************************************************)
(* split_docs: every page text of DirEntries is shorter than chunk_size,   *)
(* and such a text becomes exactly one chunk, stripped of surrounding      *)
(* whitespace, with the Document's metadata.                               *)
(***************************************************************************)
split_docs(docs) ==
    [i \in 1..Len(docs) |->
        [page_content |-> Strip(docs[i].page_content),
         source |-> docs[i].source, page |-> docs[i].page]]

(***************************************************************************)
(* The persisted index: the directory VECTORSTORE_DIR with the serialized  *)
(* index (save_local) and metadata.json.                                   *)
(***************************************************************************)
NoIndex   == [state |-> "none", chunks |-> <<>>]
PartIndex == [state |-> "partial", chunks |-> <<>>]
FullIndex(chunks) == [state |-> "complete", chunks |-> chunks]
NoMeta    == [state |-> "none", pdf_files |-> <<>>]
Meta(pdf_files) == [state |-> "written", pdf_files |-> pdf_files]

NoDir == [exists |-> FALSE, index |-> NoIndex, meta |-> NoMeta]

(* what a build that runs to its end leaves on disk for directory dir *)
BuiltDisk(dir) ==
    [exists |-> TRUE,
     index  |-> FullIndex(split_docs(load_docs_from_files(list_pdfs_in_cwd(dir)).docs)),
     meta   |-> Meta(Names(list_pdfs_in_cwd(dir)))]

(* points at which a call into a library can fail inside build_or_load *)
FailPoints == {"never", "embed", "save", "meta"}

(***************************************************************************)
(* build_or_load_vectorstore.  The result names what the call returned     *)
(* (vs), whether it raised, and what it left on disk.  FAISS.load_local    *)
(* raises on a directory that holds no complete index; from_documents      *)
(* (the embedding provider), save_local and the metadata write can fail,   *)
(* and nothing in the function catches or undoes anything.                 *)
(***************************************************************************)
NoVS == [some |-> FALSE, chunks |-> <<>>]
VS(chunks) == [some |-> TRUE, chunks |-> chunks]

BolResult(raised, vs, dsk, outcome) ==
    [raised |-> raised, vs |-> vs, disk |-> dsk, outcome |-> outcome]

(* variant: metadata lists only the files that contributed a chunk *)
RECURSIVE Sources(_)
Sources(chunks) ==
    IF chunks = <<>> THEN <<>>
    ELSE LET rest == Sources(Tail(chunks))
         IN  IF \E i \in DOMAIN rest : rest[i] = Head(chunks).source
             THEN rest ELSE <<Head(chunks).source>> \o rest

build_and_persist_contributing(pdfs, chunks, dsk, fail) ==
    IF fail # "never"
    THEN BolResult(TRUE, NoVS, dsk, "embed_error")
    ELSE BolResult(FALSE, VS(chunks),
            [exists |-> TRUE, index |-> FullIndex(chunks),
             meta |-> Meta(Sources(chunks))],
            "built")

(* lines 121-127: embed the chunks, create the directory, save the index,  *)
(* write metadata.json with the PDF listing                                *)
build_and_persist(pdfs, chunks, dsk, fail) ==
    IF fail = "embed"
    THEN BolResult(TRUE, NoVS, dsk, "embed_error")
    ELSE IF fail = "save"
         THEN BolResult(TRUE, NoVS,
                 [exists |-> TRUE, index |-> PartIndex, meta |-> NoMeta],
                 "save_error")
    ELSE IF fail = "meta"
         THEN BolResult(TRUE, NoVS,
                 [exists |-> TRUE, index |-> FullIndex(chunks), meta |-> NoMeta],
                 "meta_error")
    ELSE BolResult(FALSE, VS(chunks),
            [exists |-> TRUE, index |-> FullIndex(chunks),
             meta |-> Meta(Names(pdfs))],
            "built")

(* lines 113-127: no directory VECTORSTORE_DIR *)
build_from_pdfs(dsk, dir, fail) ==
    LET pdfs == list_pdfs_in_cwd(dir)
        docs == load_docs_from_files(pdfs).docs
    IN  IF pdfs = <<>> THEN BolResult(FALSE, NoVS, dsk, "no_pdfs")
        ELSE IF docs = <<>> THEN BolResult(FALSE, NoVS, dsk, "no_docs")
        ELSE build_and_persist(pdfs, split_docs(docs), dsk, fail)

(* lines 110-111: the directory exists *)
load_persisted(dsk) ==
    IF dsk.index.state = "complete"
    THEN BolResult(FALSE, VS(dsk.index.chunks), dsk, "loaded")
    ELSE BolResult(TRUE, NoVS, dsk, "load_error")

(* variant: a persisted index is used only while its metadata matches the  *)
(* current PDF listing                                                     *)
build_or_load_if_fresh(api_key, dsk, dir, fail) ==
    IF dsk.exists /\ dsk.meta.pdf_files = Names(list_pdfs_in_cwd(dir))
    THEN load_persisted(dsk)
    ELSE build_from_pdfs(NoDir, dir, fail)

build_or_load_vectorstore(api_key, dsk, dir, fail) ==
    IF dsk.exists THEN load_persisted(dsk) ELSE build_from_pdfs(dsk, dir, fail)

(* ghost record of one call: the disk before, the result, the disk after *)
Call(dsk, r) ==
    [pre |-> dsk, outcome |-> r.outcome, raised |-> r.raised, vs |-> r.vs,
     post |-> r.disk]

(***************************************************************************)
(* make_chain, get_api_key, ensure_conversation                            *)
(***************************************************************************)
NoConversation ==
    [set |-> FALSE, vs |-> NoVS, api_key |-> <<>>, memory |-> <<>>]

make_chain(vectorstore, api_key) ==
    [set |-> TRUE, vs |-> vectorstore, api_key |-> api_key, memory |-> <<>>]

(* x or y on strings: x when it is non-empty *)
get_api_key(ovr, envv) == Strip(IF ovr # <<>> THEN ovr ELSE envv)

EnsureResult(conv, status, dsk, raised, calls) ==
    [conversation |-> conv, rag_status |-> status, disk |-> dsk,
     raised |-> raised, calls |-> calls]

(* variant: no early return when a conversation exists *)
ensure_conversation_always(conv, status, ovr, envv, dsk, dir, fail) ==
    LET api_key == get_api_key(ovr, envv)
        r == build_or_load_vectorstore(api_key, dsk, dir, fail)
    IN  IF api_key = <<>>
        THEN EnsureResult(conv, "missing_key", dsk, FALSE, <<>>)
        ELSE IF r.raised
             THEN EnsureResult(conv, status, r.disk, TRUE, <<Call(dsk, r)>>)
        ELSE IF ~r.vs.some
             THEN EnsureResult(conv, "no_pdfs", r.disk, FALSE, <<Call(dsk, r)>>)
        ELSE EnsureResult(IF conv.set THEN conv ELSE make_chain(r.vs, api_key),
                          "ready", r.disk, FALSE, <<Call(dsk, r)>>)

(* variant: rag_status is not set when there is nothing to index *)
ensure_conversation_silent(conv, status, ovr, envv, dsk, dir, fail) ==
    IF conv.set THEN EnsureResult(conv, status, dsk, FALSE, <<>>)
    ELSE LET api_key == get_api_key(ovr, envv)
             r == build_or_load_vectorstore(api_key, dsk, dir, fail)
         IN  IF api_key = <<>>
             THEN EnsureResult(conv, "missing_key", dsk, FALSE, <<>>)
             ELSE IF r.raised
                  THEN EnsureResult(conv, status, r.disk, TRUE, <<Call(dsk, r)>>)
             ELSE IF ~r.vs.some
                  THEN EnsureResult(conv, status, r.disk, FALSE, <<Call(dsk, r)>>)
             ELSE EnsureResult(make_chain(r.vs, api_key), "ready", r.disk, FALSE,
                               <<Call(dsk, r)>>)

(* variant: the chain is stored without setting rag_status to ready *)
ensure_conversation_keeps_status(conv, status, ovr, envv, dsk, dir, fail) ==
    IF conv.set THEN EnsureResult(conv, status, dsk, FALSE, <<>>)
    ELSE LET api_key == get_api_key(ovr, envv)
             r == build_or_load_vectorstore(api_key, dsk, dir, fail)
         IN  IF api_key = <<>>
             THEN EnsureResult(conv, "missing_key", dsk, FALSE, <<>>)
             ELSE IF r.raised
                  THEN EnsureResult(conv, status, r.disk, TRUE, <<Call(dsk, r)>>)
             ELSE IF ~r.vs.some
                  THEN EnsureResult(conv, "no_pdfs", r.disk, FALSE, <<Call(dsk, r)>>)
             ELSE EnsureResult(make_chain(r.vs, api_key), status, r.disk, FALSE,
                               <<Call(dsk, r)>>)

ensure_conversation(conv, status, ovr, envv, dsk, dir, fail) ==
    IF conv.set THEN EnsureResult(conv, status, dsk, FALSE, <<>>)
    ELSE LET api_key == get_api_key(ovr, envv)
             r == build_or_load_vectorstore(api_key, dsk, dir, fail)
         IN  IF api_key = <<>>
             THEN EnsureResult(conv, "missing_key", dsk, FALSE, <<>>)
             ELSE IF r.raised
                  THEN EnsureResult(conv, status, r.disk, TRUE, <<Call(dsk, r)>>)
             ELSE IF ~r.vs.some
                  THEN EnsureResult(conv, "no_pdfs", r.disk, FALSE, <<Call(dsk, r)>>)
             ELSE EnsureResult(make_chain(r.vs, api_key), "ready", r.disk, FALSE,
                               <<Call(dsk, r)>>)

(***************************************************************************)
(* The chat submit handler.                                                *)
(***************************************************************************)
Msg(role, content) == [role |-> role, content |-> content]

(* the three fixed replies (their leading warning sign is left out) *)
MISSING_KEY_MSG ==
    <<"RAG unavailable: Please set your OPENAI_API_KEY in the Settings tab.">>
NO_PDFS_MSG ==
    <<"RAG unavailable: Please add PDFs in the Knowledge Base tab and rebuild the index.">>
NOT_READY_MSG ==
    <<"RAG not ready. Please check Settings and Knowledge Base.">>

(* f"(RAG error: {e})" *)
RagError(e) == <<"(RAG error:", " ">> \o e \o <<")">>

(* variant: the chain saves the turn to its memory even when the call fails *)
chain_call_saves_always(conv, q, llm) ==
    [raised  |-> ~llm.ok,
     text    |-> llm.text,
     history |-> conv.memory,
     conversation |->
        [conv EXCEPT !.memory = @ \o <<Msg("human", q), Msg("ai", llm.text)>>]]

(* convo({"question": q}): the chain reads chat_history from its memory,   *)
(* calls the model, and saves the question and the answer to its memory    *)
(* only when the call returns; an exception leaves the memory as it was.   *)
chain_call(conv, q, llm) ==
    [raised  |-> ~llm.ok,
     text    |-> llm.text,
     history |-> conv.memory,
     conversation |->
        IF llm.ok
        THEN [conv EXCEPT !.memory = @ \o <<Msg("human", q), Msg("ai", llm.text)>>]
        ELSE conv]

(* variant: the status strings are compared with a hyphen *)
guidance_typo(status) ==
    IF status = "missing-key" THEN MISSING_KEY_MSG
    ELSE IF status = "no-pdfs" THEN NO_PDFS_MSG
    ELSE NOT_READY_MSG

guidance(status) ==
    IF status = "missing_key" THEN MISSING_KEY_MSG
    ELSE IF status = "no_pdfs" THEN NO_PDFS_MSG
    ELSE NOT_READY_MSG

(* variant: no try/except around the chain call *)
submit_handler_no_except(msgs, conv, status, q, llm) ==
    LET m1 == Append(msgs, Msg("user", q))
        r  == chain_call(conv, q, llm)
        failed == conv.set /\ r.raised
        answer == IF conv.set THEN r.text ELSE guidance(status)
    IN  [raised   |-> failed,
         messages |-> IF failed THEN m1
                      ELSE Append(m1, Msg("assistant", tidy_response(answer))),
         conversation |-> IF conv.set THEN r.conversation ELSE conv,
         answer   |-> answer,
         llm      |-> IF ~conv.set THEN "none"
                      ELSE IF r.raised THEN "fail" ELSE "ok",
         history  |-> IF conv.set THEN r.history ELSE <<>>]

(* lines 450-469, for a submitted q with q.strip() non-empty *)
submit_handler(msgs, conv, status, q, llm) ==
    LET m1 == Append(msgs, Msg("user", q))
        r  == chain_call(conv, q, llm)
        answer == IF conv.set
                  THEN (IF r.raised THEN RagError(r.text) ELSE r.text)
                  ELSE guidance(status)
    IN  [raised   |-> FALSE,
         messages |-> Append(m1, Msg("assistant", tidy_response(answer))),
         conversation |-> IF conv.set THEN r.conversation ELSE conv,
         answer   |-> answer,
         llm      |-> IF ~conv.set THEN "none"
                      ELSE IF r.raised THEN "fail" ELSE "ok",
         history  |-> IF conv.set THEN r.history ELSE <<>>]

(* variant: a rebuild that yields no index drops the conversation *)
rebuild_handler_resets(conv, status, ovr, envv, dsk, dir, fail) ==
    LET api_key == get_api_key(ovr, envv)
        r == build_or_load_vectorstore(api_key, NoDir, dir, fail)
    IN  IF api_key = <<>>
        THEN EnsureResult(conv, status, dsk, FALSE, <<>>)
        ELSE IF r.raised
             THEN EnsureResult(conv, status, r.disk, TRUE, <<Call(NoDir, r)>>)
        ELSE IF r.vs.some
             THEN EnsureResult(make_chain(r.vs, api_key), "ready", r.disk, FALSE,
                               <<Call(NoDir, r)>>)
        ELSE EnsureResult(NoConversation, "no_pdfs", r.disk, FALSE,
                          <<Call(NoDir, r)>>)

(***************************************************************************)
(* The Rebuild Knowledge Base button (lines 571-585), run on the session   *)
(* state that ensure_conversation left.                                    *)
(***************************************************************************)
rebuild_handler(conv, status, ovr, envv, dsk, dir, fail) ==
    LET api_key == get_api_key(ovr, envv)
        r == build_or_load_vectorstore(api_key, NoDir, dir, fail)
    IN  IF api_key = <<>>
        THEN EnsureResult(conv, status, dsk, FALSE, <<>>)
        ELSE IF r.raised
             THEN EnsureResult(conv, status, r.disk, TRUE, <<Call(NoDir, r)>>)
        ELSE IF r.vs.some
             THEN EnsureResult(make_chain(r.vs, api_key), "ready", r.disk, FALSE,
                               <<Call(NoDir, r)>>)
        ELSE EnsureResult(conv, status, r.disk, FALSE, <<Call(NoDir, r)>>)

(***************************************************************************)
(* State.                                                                  *)
(***************************************************************************)
VARIABLES
    env,            \* os.getenv("OPENAI_API_KEY", "")
    override,       \* st.session_state["OPENAI_API_KEY_OVERRIDE"]
    cwd,            \* entries of the working directory
    disk,           \* VECTORSTORE_DIR
    messages,       \* st.session_state.messages
    conversation,   \* st.session_state.conversation
    rag_status,     \* st.session_state.rag_status
    rerun,          \* st.rerun() was called and the script has not run again
    asked,          \* ghost: every handled submission, in order
    chainStart,     \* ghost: Len(asked) when the current chain was made
    last,           \* ghost: what the latest step was and did
    pdf_files,      \* ExtractSpec: the argument of load_docs_from_files
    loaded          \* ExtractSpec: what load_docs_from_files returned

vars == <<env, override, cwd, disk, messages, conversation, rag_status, rerun,
          asked, chainStart, last, pdf_files, loaded>>

KeyValues == { <<>>, <<" ">>, <<"sk-1", " ">> }
EnvValues == { <<>>, <<"sk-0">> }
Questions == { <<"q">>, <<" ">> }
LLMOutcomes ==
    { [ok |-> TRUE,  text |-> <<"A">>],
      [ok |-> TRUE,  text |-> <<" ", "*", "*", " ", "B">>],
      [ok |-> FALSE, text |-> <<"timeout">>] }

(* load_docs_from_files has not been called / has returned r *)
NotLoaded == [done |-> FALSE, docs |-> <<>>, warnings |-> <<>>]
Loaded(r) == [done |-> TRUE, docs |-> r.docs, warnings |-> r.warnings]

Step(op, raised, llm, history, calls) ==
    [op |-> op, raised |-> raised, llm |-> llm, history |-> history,
     calls |-> calls]

(* lines 171-174; the index and the directory are whatever an earlier      *)
(* process left behind                                                     *)
Init ==
    /\ env \in EnvValues
    /\ override = <<>>
    /\ cwd \in SUBSET DirEntries
    /\ disk \in {NoDir} \cup
                { d \in {BuiltDisk(dir) : dir \in SUBSET DirEntries} :
                      d.index.chunks # <<>> }
    /\ messages = <<>>
    /\ conversation = NoConversation
    /\ rag_status = "init"
    /\ rerun = FALSE
    /\ asked = <<>>
    /\ chainStart = 0
    /\ last = Step("init", "no", "none", <<>>, <<>>)
    /\ pdf_files = <<>>
    /\ loaded = NotLoaded

(* fail names the library call that fails in this run; a run that does not *)
(* reach that call is the run with fail = "never"                          *)
Used(fail, calls) ==
    \/ fail = "never"
    \/ /\ calls # <<>>
       /\ calls[Len(calls)].outcome =
             (CASE fail = "embed" -> "embed_error"
                [] fail = "save"  -> "save_error"
                [] fail = "meta"  -> "meta_error"
                [] OTHER          -> "none")

(* the Chat tab's ensure_conversation() at the top of this run *)
Start(fail) ==
    ensure_conversation(conversation, rag_status, override, env, disk, cwd, fail)

(* ghost: the chain was made in this run by ensure_conversation *)
NewChainStart(e) ==
    IF ~conversation.set /\ e.conversation.set THEN Len(asked) ELSE chainStart

(* a run ended by an exception in ensure_conversation *)
Aborted(op, e) ==
    /\ disk' = e.disk
    /\ conversation' = e.conversation
    /\ rag_status' = e.rag_status
    /\ rerun' = FALSE
    /\ UNCHANGED <<pdf_files, loaded>>
    /\ last' = Step(op, "ensure", "none", <<>>, e.calls)
    /\ UNCHANGED <<env, override, cwd, messages, asked, chainStart>>

(* a run in which no handler changes anything: st.rerun(), or a widget     *)
(* without a handler                                                       *)
Plain(op, e) ==
    /\ disk' = e.disk
    /\ conversation' = e.conversation
    /\ rag_status' = e.rag_status
    /\ chainStart' = NewChainStart(e)
    /\ rerun' = FALSE
    /\ UNCHANGED <<pdf_files, loaded>>
    /\ last' = Step(op, "no", "none", <<>>, e.calls)
    /\ UNCHANGED <<env, override, cwd, messages, asked>>

ScriptRun(fail) ==
    LET e == Start(fail)
    IN  /\ Used(fail, e.calls)
        /\ IF e.raised THEN Aborted("run", e) ELSE Plain("run", e)

(* the Settings tab's text_input: the widget stores its new value under    *)
(* its key before the script runs again                                    *)
SetOverride(v, fail) ==
    /\ ~rerun
    /\ v # override
    /\ LET e == ensure_conversation(conversation, rag_status, v, env, disk,
                                    cwd, fail)
       IN  /\ Used(fail, e.calls)
           /\ override' = v
           /\ disk' = e.disk
           /\ conversation' = e.conversation
           /\ rag_status' = e.rag_status
           /\ chainStart' = NewChainStart(e)
           /\ rerun' = FALSE
           /\ UNCHANGED <<pdf_files, loaded>>
           /\ last' = Step("set_key", IF e.raised THEN "ensure" ELSE "no",
                           "none", <<>>, e.calls)
           /\ UNCHANGED <<env, cwd, messages, asked>>

(* the chat form is submitted with text q *)
Ask(q, llm, fail) ==
    /\ ~rerun
    /\ LET e == Start(fail)
           h == submit_handler(messages, e.conversation, e.rag_status, q, llm)
       IN  /\ Used(fail, e.calls)
           /\ IF e.raised THEN Aborted("ask", e)
              ELSE IF Strip(q) = <<>> THEN Plain("ask_blank", e)
              ELSE
                /\ disk' = e.disk
                /\ rag_status' = e.rag_status
                /\ messages' = h.messages
                /\ conversation' = h.conversation
                /\ asked' = Append(asked, [q |-> q, a |-> h.answer, llm |-> h.llm])
                /\ chainStart' = NewChainStart(e)
                /\ rerun' = ~h.raised
                /\ UNCHANGED <<pdf_files, loaded>>
                /\ last' = Step("ask", IF h.raised THEN "handler" ELSE "no",
                                h.llm, h.history, e.calls)
                /\ UNCHANGED <<env, override, cwd>>

(* the Rebuild Knowledge Base button is clicked *)
Rebuild(fail1, fail2) ==
    /\ ~rerun
    /\ LET e == Start(fail1)
           r == rebuild_handler(e.conversation, e.rag_status, override, env,
                                e.disk, cwd, fail2)
       IN  /\ Used(fail1, e.calls)
           /\ IF e.raised THEN fail2 = "never" ELSE Used(fail2, r.calls)
           /\ IF e.raised THEN Aborted("rebuild", e)
              ELSE
                /\ disk' = r.disk
                /\ conversation' = r.conversation
                /\ rag_status' = r.rag_status
                /\ chainStart' =
                      IF r.calls # <<>> /\ r.calls[1].outcome = "built"
                      THEN Len(asked) ELSE NewChainStart(e)
                /\ rerun' = FALSE
                /\ UNCHANGED <<pdf_files, loaded>>
                /\ last' = Step("rebuild", IF r.raised THEN "handler" ELSE "no",
                                "none", <<>>, e.calls \o r.calls)
                /\ UNCHANGED <<env, override, cwd, messages, asked>>

(* the Clear Chat History button is clicked *)
ClearChat(fail) ==
    /\ ~rerun
    /\ LET e == Start(fail)
       IN  /\ Used(fail, e.calls)
           /\ IF e.raised THEN Aborted("clear", e)
              ELSE
                /\ disk' = e.disk
                /\ conversation' = e.conversation
                /\ rag_status' = e.rag_status
                /\ chainStart' = NewChainStart(e)
                /\ messages' = <<>>
                /\ rerun' = FALSE
                /\ UNCHANGED <<pdf_files, loaded>>
                /\ last' = Step("clear", "no", "none", <<>>, e.calls)
                /\ UNCHANGED <<env, override, cwd, asked>>

(* the environment: files appear in and vanish from the working directory *)
AddFile(f) ==
    /\ f \notin cwd
    /\ cwd' = cwd \cup {f}
    /\ UNCHANGED <<pdf_files, loaded>>
    /\ last' = Step("files", "no", "none", <<>>, <<>>)
    /\ UNCHANGED <<env, override, disk, messages, conversation, rag_status,
                   rerun, asked, chainStart>>

RemoveFile(f) ==
    /\ f \in cwd
    /\ cwd' = cwd \ {f}
    /\ UNCHANGED <<pdf_files, loaded>>
    /\ last' = Step("files", "no", "none", <<>>, <<>>)
    /\ UNCHANGED <<env, override, disk, messages, conversation, rag_status,
                   rerun, asked, chainStart>>

Submit ==
    /\ Len(asked) < MaxAsks
    /\ \E q \in Questions, llm \in LLMOutcomes, fail \in FailPoints :
          Ask(q, llm, fail)

Next ==
    \/ \E fail \in FailPoints : ScriptRun(fail)
    \/ \E v \in KeyValues, fail \in FailPoints : SetOverride(v, fail)
    \/ Submit
    \/ \E fail1 \in FailPoints, fail2 \in FailPoints : Rebuild(fail1, fail2)
    \/ \E fail \in FailPoints : ClearChat(fail)
    \/ \E f \in DirEntries : AddFile(f)
    \/ \E f \in DirEntries : RemoveFile(f)

Spec == Init /\ [][Next]_vars

(***************************************************************************)
(* ChatSpec: a session with a credential in the environment and one        *)
(* readable PDF, in which no index call fails; the language-model call     *)
(* may.  It follows longer conversations than Spec does.                   *)
(***************************************************************************)
ChatInit ==
    /\ Init
    /\ env # <<>>
    /\ cwd = {f \in DirEntries : f.stem = "B"}
    /\ disk = NoDir

ChatSubmit ==
    /\ Len(asked) < MaxChatAsks
    /\ \E q \in Questions, llm \in LLMOutcomes : Ask(q, llm, "never")

ChatNext ==
    \/ ScriptRun("never")
    \/ \E v \in KeyValues : SetOverride(v, "never")
    \/ ChatSubmit
    \/ Rebuild("never", "never")
    \/ ClearChat("never")

ChatSpec == ChatInit /\ [][ChatNext]_vars

(***************************************************************************)
(* Properties.                                                             *)
(***************************************************************************)
ScriptOps == {"run", "set_key", "ask", "ask_blank", "rebuild", "clear"}

PersistedIndex(d) == d.exists /\ d.index.state = "complete"

(* C1: build_or_load: whenever a persisted index exists at the storage     *)
(* path, the call loads and returns that index and leaves the disk as it   *)
(* is, whatever the current PDF set; it builds from PDFs (or finds there   *)
(* is nothing to build from) only when no persisted directory exists.      *)
C1_ExistingIndexWins ==
    \A i \in DOMAIN last.calls :
        LET c == last.calls[i]
        IN  /\ PersistedIndex(c.pre) =>
                  /\ c.outcome = "loaded"
                  /\ ~c.raised
                  /\ c.vs = VS(c.pre.index.chunks)
                  /\ c.post = c.pre
            /\ c.outcome \in {"built", "no_pdfs", "no_docs", "embed_error",
                              "save_error", "meta_error"} => ~c.pre.exists

(* a stale index was loaded: its metadata differs from the PDF listing *)
C1_Witness ==
    /\ last.calls # <<>>
    /\ last.calls[1].outcome = "loaded"
    /\ last.calls[1].pre.meta.state = "written"
    /\ last.calls[1].pre.meta.pdf_files # Names(list_pdfs_in_cwd(cwd))
    /\ last.op = "run"
    /\ conversation.set
    /\ conversation.vs = VS(last.calls[1].pre.index.chunks)

(* C2: an ask in a session that is not ready never calls the language      *)
(* model and appends the guidance message of its state: the missing-key    *)
(* message in missing_key, the missing-documents message in no_pdfs; the   *)
(* two messages differ.                                                    *)
C2_NotReadyAskGuides ==
    [][ (last'.op = "ask" /\ last'.raised = "no" /\ rag_status' # "ready") =>
            /\ last'.llm = "none"
            /\ rag_status' \in {"missing_key", "no_pdfs"}
            /\ Len(messages') = Len(messages) + 2
            /\ SubSeq(messages', 1, Len(messages)) = messages
            /\ messages'[Len(messages') - 1].role = "user"
            /\ messages'[Len(messages')] =
                  Msg("assistant",
                      IF rag_status' = "missing_key"
                      THEN <<"RAG unavailable: Please set your OPENAI_API_KEY in the Settings tab.">>
                      ELSE <<"RAG unavailable: Please add PDFs in the Knowledge Base tab and rebuild the index.">>)
            /\ MISSING_KEY_MSG # NO_PDFS_MSG
      ]_vars

(* an ask answered with the missing-key message while a PDF is present *)
C2_Witness ==
    /\ last.op = "ask"
    /\ last.raised = "no"
    /\ last.llm = "none"
    /\ rag_status = "missing_key"
    /\ list_pdfs_in_cwd(cwd) # <<>>
    /\ messages # <<>>
    /\ messages[Len(messages)].content = MISSING_KEY_MSG

(* C3: once rag_status is ready it is ready after every later step. *)
C3_ReadyStaysReady ==
    [][ rag_status = "ready" => rag_status' = "ready" ]_vars

(* still ready after an ask although credential, PDFs and index are gone *)
C3_Witness ==
    /\ rag_status = "ready"
    /\ last.op = "ask"
    /\ last.llm # "none"
    /\ get_api_key(override, env) = <<>>
    /\ list_pdfs_in_cwd(cwd) = <<>>
    /\ ~disk.exists

(* the (question, answer) turns of a list of handled submissions *)
RECURSIVE Turns(_)
Turns(log) ==
    IF log = <<>> THEN <<>>
    ELSE <<Msg("human", Head(log).q), Msg("ai", Head(log).a)>> \o Turns(Tail(log))

RECURSIVE Answered(_)
Answered(log) ==
    IF log = <<>> THEN <<>>
    ELSE (IF Head(log).llm = "ok" THEN <<Head(log)>> ELSE <<>>)
         \o Answered(Tail(log))

Earlier == SubSeq(asked, 1, Len(asked) - 1)

(* C4 as stated: the history given to the language model on an ask is the  *)
(* ordered sequence of the (question, answer) pairs of all earlier asks of *)
(* the session, whatever happened in between.                              *)
C4_HistoryIsAllEarlierAsks ==
    (last.op = "ask" /\ last.llm # "none") => last.history = Turns(Earlier)

(* C4, amended: the history given to the language model on an ask is the   *)
(* ordered sequence of the (question, answer) pairs of the earlier asks    *)
(* that the current chain answered: those made since the chain was         *)
(* created whose language-model call returned.                             *)
C4_HistoryIsChainTurns ==
    (last.op = "ask" /\ last.llm # "none") =>
        /\ chainStart <= Len(Earlier)
        /\ last.history =
              Turns(Answered(SubSeq(Earlier, chainStart + 1, Len(Earlier))))
        /\ conversation.memory =
              Turns(Answered(SubSeq(asked, chainStart + 1, Len(asked))))

(* a third ask that was given two earlier pairs with different answers,    *)
(* in order, after the chat history had been cleared                       *)
C4_Witness ==
    /\ last.op = "ask"
    /\ last.llm = "ok"
    /\ Len(asked) = 3
    /\ Len(last.history) = 4
    /\ last.history[1].role = "human" /\ last.history[2].role = "ai"
    /\ last.history[2].content = asked[1].a
    /\ last.history[4].content = asked[2].a
    /\ asked[1].a # asked[2].a
    /\ Len(messages) = 2

(* C5: when the language-model call of an ask fails, the run does not      *)
(* raise; the message log gains exactly the user question and the inline   *)
(* error reply; the chain and its memory are as before; rag_status is      *)
(* ready; and the ask that follows a failed one calls the model again and  *)
(* appends its answer.                                                     *)
C5_FailedAskIsInline ==
    [][ /\ (last'.op = "ask" /\ last'.llm = "fail") =>
            /\ last'.raised = "no"
            /\ Len(messages') = Len(messages) + 2
            /\ SubSeq(messages', 1, Len(messages)) = messages
            /\ messages'[Len(messages') - 1] = Msg("user", asked'[Len(asked')].q)
            /\ messages'[Len(messages')].role = "assistant"
            /\ \E o \in LLMOutcomes :
                  /\ ~o.ok
                  /\ messages'[Len(messages')].content =
                        <<"(RAG error:", " ">> \o o.text \o <<")">>
            /\ rag_status' = "ready"
            /\ conversation'.set
            /\ conversation'.memory = last'.history
            /\ conversation.set => conversation' = conversation
        /\ (last'.op = "ask" /\ asked # <<>> /\ asked[Len(asked)].llm = "fail"
              /\ conversation.set) =>
            /\ last'.llm \in {"ok", "fail"}
            /\ last'.raised = "no"
            /\ last'.llm = "ok" =>
                  /\ messages'[Len(messages')] =
                        Msg("assistant", tidy_response(asked'[Len(asked')].a))
                  /\ Len(conversation'.memory) = Len(conversation.memory) + 2
      ]_vars

(* an ask answered by the model right after a failed ask, with the failed  *)
(* ask's error reply in the log                                            *)
C5_Witness ==
    /\ last.op = "ask"
    /\ last.llm = "ok"
    /\ Len(asked) >= 2
    /\ asked[Len(asked) - 1].llm = "fail"
    /\ Len(messages) >= 4
    /\ messages[Len(messages) - 2].content = RagError(<<"timeout">>)
    /\ rag_status = "ready"

(* a session without a chain, with a credential, no PDF in the directory   *)
(* and no persisted index                                                  *)
C6_Case ==
    /\ ~conversation.set
    /\ get_api_key(override, env) # <<>>
    /\ list_pdfs_in_cwd(cwd) = <<>>
    /\ ~disk.exists

(* C6 as stated: in that case build_or_load returns the no-documents       *)
(* outcome, the state becomes no_pdfs, an ask returns the no-pdfs message  *)
(* and the conversation log after the ask equals the log before it.        *)
C6_AskLeavesLogUnchanged ==
    [][ (C6_Case /\ last'.op = "ask" /\ last'.raised = "no") =>
            /\ Len(last'.calls) = 1
            /\ last'.calls[1].outcome = "no_pdfs"
            /\ rag_status' = "no_pdfs"
            /\ asked'[Len(asked')].a = NO_PDFS_MSG
            /\ messages' = messages
      ]_vars

(* C6, amended: in that case build_or_load returns the no-documents        *)
(* outcome without touching the disk, the state becomes no_pdfs, and an    *)
(* ask calls no model, leaves the session without a chain (so without      *)
(* chain memory) and appends exactly the user question and the no-pdfs     *)
(* message to the message log.                                             *)
C6_NoPdfsAskAppendsGuidance ==
    [][ (C6_Case /\ last'.op = "ask" /\ last'.raised = "no") =>
            /\ Len(last'.calls) = 1
            /\ last'.calls[1].outcome = "no_pdfs"
            /\ ~last'.calls[1].vs.some
            /\ disk' = disk
            /\ rag_status' = "no_pdfs"
            /\ last'.llm = "none"
            /\ conversation' = conversation
            /\ asked'[Len(asked')].a = NO_PDFS_MSG
            /\ messages' = messages \o
                  << Msg("user", asked'[Len(asked')].q),
                     Msg("assistant", NO_PDFS_MSG) >>
      ]_vars

(* such an ask has happened, in a directory that holds a non-PDF file *)
C6_Witness ==
    /\ C6_Case
    /\ last.op = "ask"
    /\ last.raised = "no"
    /\ rag_status = "no_pdfs"
    /\ cwd # {}
    /\ Len(messages) = 2
    /\ messages[2].content = NO_PDFS_MSG

(* C7: after a script run, a non-empty credential in the environment and   *)
(* no usable override (absent or whitespace only) never leave the session  *)
(* in missing_key.                                                         *)
C7_EnvCredentialSuffices ==
    (/\ last.op \in ScriptOps
     /\ last.raised = "no"
     /\ Strip(env) # <<>>
     /\ Strip(override) = <<>>) => rag_status # "missing_key"

(* the listing the metadata must hold: the names of the regular files of   *)
(* dir whose name ends in .pdf in any letter case, ascending               *)
IsListingOf(m, dir) ==
    LET P == {f \in dir : f.isfile /\ f.ext \in {".pdf", ".PDF"}}
    IN  /\ Len(m) = Cardinality(P)
        /\ {m[i] : i \in DOMAIN m} = {<<f.stem, f.ext>> : f \in P}
        /\ \A i \in DOMAIN m : \A j \in DOMAIN m :
              i < j => CodePoint(m[i][1]) < CodePoint(m[j][1])

RebuildBuilt ==
    /\ last.op = "rebuild"
    /\ last.raised = "no"
    /\ last.calls # <<>>
    /\ last.calls[Len(last.calls)].outcome = "built"

(* C8: after a rebuild that produced a new index, the persisted metadata   *)
(* is that of this build: pdf_files is exactly the listing of the .pdf     *)
(* files of the directory, in listing order.                               *)
C8_MetadataIsListing ==
    RebuildBuilt =>
        /\ ~last.calls[Len(last.calls)].pre.exists
        /\ PersistedIndex(disk)
        /\ disk.meta.state = "written"
        /\ IsListingOf(disk.meta.pdf_files, cwd)
        /\ disk = last.calls[Len(last.calls)].post

(* a rebuild replaced the metadata of an earlier build by a listing of two *)
(* files, one of which contributed no chunk                                *)
C8_Witness ==
    /\ RebuildBuilt
    /\ Len(last.calls) = 2
    /\ last.calls[1].outcome = "loaded"
    /\ last.calls[1].pre.meta.state = "written"
    /\ last.calls[1].pre.meta # disk.meta
    /\ Len(disk.meta.pdf_files) = 2
    /\ Len(disk.index.chunks) = 1

(* C9: the persisted index path is either absent or holds a complete       *)
(* serialized index together with its metadata.                            *)
C9_AbsentOrComplete ==
    disk.exists => (disk.index.state = "complete" /\ disk.meta.state = "written")

(* C10: a script run never ends in an exception raised by                  *)
(* ensure_conversation or by the rebuild action, and after a failure of    *)
(* the embedding provider or of index loading the session is in a defined  *)
(* non-ready state.                                                        *)
C10_FailuresBecomeState ==
    /\ (\A i \in DOMAIN last.calls :
           last.calls[i].outcome \in {"loaded", "built", "no_pdfs", "no_docs"})
          => last.raised = "no"
    /\ \A i \in DOMAIN last.calls :
          last.calls[i].outcome \in {"embed_error", "load_error"} =>
              /\ last.raised = "no"
              /\ rag_status \in {"missing_key", "no_pdfs"}

(***************************************************************************)
(* ExtractSpec: load_docs_from_files applied to a list of PDF files, each  *)
(* of which either cannot be opened or has up to MaxPages pages that have  *)
(* text, are blank, or make extract_text() raise.                          *)
(***************************************************************************)
MaxPages == 2

PageKinds == { Page(<<"t", " ">>), Page(<<" ">>), BadPage }

PageLists == UNION { [1..n -> PageKinds] : n \in 0..MaxPages }

Contents ==
    { [open_fails |-> FALSE, pages |-> p] : p \in PageLists }
    \cup { [open_fails |-> TRUE, pages |-> <<>>] }

(* the names of the listed files, in listing order *)
ExtractStems == <<"B", "a", "c">>

PdfFile(i, c) ==
    [stem |-> ExtractStems[i], ext |-> ".pdf", isfile |-> TRUE,
     open_fails |-> c.open_fails, pages |-> c.pages]

PdfLists ==
    UNION { { [i \in 1..n |-> PdfFile(i, c[i])] : c \in [1..n -> Contents] } :
            n \in 0..Len(ExtractStems) }

ExtractInit ==
    /\ pdf_files \in PdfLists
    /\ loaded = NotLoaded
    /\ env = <<>>
    /\ override = <<>>
    /\ cwd = {}
    /\ disk = NoDir
    /\ messages = <<>>
    /\ conversation = NoConversation
    /\ rag_status = "init"
    /\ rerun = FALSE
    /\ asked = <<>>
    /\ chainStart = 0
    /\ last = Step("init", "no", "none", <<>>, <<>>)

Extract ==
    /\ ~loaded.done
    /\ loaded' = Loaded(load_docs_from_files(pdf_files))
    /\ UNCHANGED <<env, override, cwd, disk, messages, conversation,
                   rag_status, rerun, asked, chainStart, last, pdf_files>>

ExtractSpec == ExtractInit /\ [][Extract]_vars

(* extraction of f fails: on opening it or on one of its pages *)
ExtractionFails(f) ==
    f.open_fails \/ \E i \in DOMAIN f.pages : f.pages[i].raises

(* the Documents of a file that is read to its end: its non-blank pages *)
PageDocs(f) ==
    LET idx == SelectSeq([i \in 1..Len(f.pages) |-> i],
                         LAMBDA i : Strip(f.pages[i].text) # <<>>)
    IN  [k \in 1..Len(idx) |->
            [page_content |-> f.pages[idx[k]].text,
             source |-> <<f.stem, f.ext>>, page |-> idx[k]]]

RECURSIVE DocsOfReadable(_)
DocsOfReadable(files) ==
    IF files = <<>> THEN <<>>
    ELSE (IF ExtractionFails(Head(files)) THEN <<>> ELSE PageDocs(Head(files)))
         \o DocsOfReadable(Tail(files))

(* C11: after load_docs_from_files, every file whose extraction failed     *)
(* has a warning and no Document in the result, and the result is exactly  *)
(* the Documents of the other files, in file and page order.               *)
C11_FailedFileContributesNothing ==
    loaded.done =>
        /\ \A i \in DOMAIN pdf_files :
              ExtractionFails(pdf_files[i]) =>
                  /\ \E w \in DOMAIN loaded.warnings :
                        loaded.warnings[w] = FileName(pdf_files[i])
                  /\ \A d \in DOMAIN loaded.docs :
                        loaded.docs[d].source # FileName(pdf_files[i])
        /\ loaded.docs = DocsOfReadable(pdf_files)

(* a credential is available to the ensure_conversation call of this step, *)
(* and so is a persisted index or a PDF with extractable text; no library  *)
(* call of the build fails in this step                                    *)
CanBecomeReady ==
    /\ last'.op \in ScriptOps
    /\ get_api_key(override', env') # <<>>
    /\ \/ PersistedIndex(disk)
       \/ load_docs_from_files(list_pdfs_in_cwd(cwd)).docs # <<>>
    /\ \A i \in DOMAIN last'.calls :
          last'.calls[i].outcome \notin {"embed_error", "save_error", "meta_error"}

(* C12: ensure_conversation is idempotent: a script run that only calls    *)
(* it, right after a script run that returned, leaves rag_status and the   *)
(* conversation object as they are and returns; and from missing_key or    *)
(* no_pdfs a call moves the state to ready as soon as a credential and an  *)
(* index or indexable PDFs are available.                                  *)
C12_EnsureIdempotentAndRecovers ==
    [][ /\ (last.op \in ScriptOps /\ last.raised = "no" /\ last'.op = "run") =>
            /\ last'.raised = "no"
            /\ rag_status' = rag_status
            /\ conversation' = conversation
        /\ (rag_status \in {"missing_key", "no_pdfs"} /\ CanBecomeReady) =>
            rag_status' = "ready"
      ]_vars

(* C13: in every reachable state the conversation chain is set exactly     *)
(* when rag_status is ready, and a handled ask has called the language     *)
(* model exactly when rag_status is ready.                                 *)
C13_ChainIffReady ==
    /\ conversation.set <=> rag_status = "ready"
    /\ (last.op = "ask" /\ last.raised # "ensure") =>
          (last.llm # "none" <=> rag_status = "ready")

(* the chain of a ready session has answered an ask *)
C13_Witness ==
    /\ last.op = "ask"
    /\ last.llm = "ok"
    /\ conversation.set
    /\ rag_status = "ready"
    /\ conversation.memory # <<>>

(* the session state the Rebuild handler starts from: what this run's      *)
(* ensure_conversation, having returned, left                              *)
BeforeHandler == Start("never")

(* the handler's build_or_load_vectorstore call of the step just taken,    *)
(* if it made one                                                          *)
HandlerCalls == SubSeq(last'.calls, Len(BeforeHandler.calls) + 1, Len(last'.calls))

SessionKept ==
    /\ conversation' = BeforeHandler.conversation
    /\ rag_status' = BeforeHandler.rag_status

(* C14: a rebuild request changes conversation and rag_status only when it *)
(* yields an index: with no credential it deletes nothing and changes      *)
(* nothing; with a credential but no PDFs or no extractable text it        *)
(* removes the persisted index and leaves conversation and rag_status as   *)
(* they were; a successful build, and nothing else, stores a fresh chain   *)
(* on the built index and sets rag_status to ready.                        *)
C14_RebuildFrame ==
    [][ (last'.op = "rebuild" /\ last'.raised # "ensure") =>
          LET api_key == get_api_key(override, env)
              docs == load_docs_from_files(list_pdfs_in_cwd(cwd)).docs
              built == HandlerCalls # <<>> /\ HandlerCalls[1].outcome = "built"
          IN  /\ api_key = <<>> =>
                    /\ HandlerCalls = <<>>
                    /\ disk' = disk
                    /\ SessionKept
              /\ (api_key # <<>> /\ docs = <<>>) =>
                    /\ disk' = NoDir
                    /\ SessionKept
              /\ ~built => SessionKept
              /\ built =>
                    /\ conversation' = make_chain(HandlerCalls[1].vs, api_key)
                    /\ conversation'.memory = <<>>
                    /\ conversation'.vs.chunks = disk'.index.chunks
                    /\ rag_status' = "ready"
                    /\ PersistedIndex(disk')
      ]_vars

(* a ready session whose persisted index a rebuild without indexable PDFs  *)
(* has removed: it stays ready on the index it had loaded                  *)
C14_Witness ==
    /\ last.op = "rebuild"
    /\ last.raised = "no"
    /\ last.calls # <<>>
    /\ last.calls[Len(last.calls)].outcome \in {"no_pdfs", "no_docs"}
    /\ last.calls[Len(last.calls)].pre = NoDir
    /\ disk = NoDir
    /\ conversation.set
    /\ rag_status = "ready"

====
